---------------------------- MODULE Spec2Model ----------------------------
(***************************************************************************)
(* Model of sagemaker/cli/compatibility/v2/modifiers/framework_version.py: *)
(* the FrameworkVersionEnforcer modifier of the v2 migration tool.         *)
(*                                                                         *)
(* Python strings are sequences of atomic symbols.  A version string is a  *)
(* sequence of characters ("1.12" is <<"1", ".", "1", "2">>); an           *)
(* identifier is a sequence of words ("TensorFlowModel" is                 *)
(* <<"TensorFlow", "Model">>), so that str.split, int, str.endswith and    *)
(* str.find are computed symbol by symbol, as the code computes them.      *)
(*                                                                         *)
(* A Python value is a record [t, s]: t is its type and s its symbols.     *)
(* The result of a function that may raise is a record [exc, val], exc     *)
(* being "" when the function returns val.                                 *)
(***************************************************************************)
EXTENDS Integers, Sequences, FiniteSets, TLC

VARIABLES
    func,         \* node.func: the callee expression of the ast.Call node
    keywords,     \* node.keywords: sequence of keywords [arg, value]
    const_has_s,  \* the interpreter's ast node for a None literal has an "s" attribute
    op,           \* the function that ran last ("" initially)
    arg,          \* the argument of the last pure-function application
    ret,          \* the Python value the last function returned
    exc,          \* the exception the last function raised ("" when it returned)
    old,          \* node.keywords before the last modify_node (history)
    selected,     \* node_should_be_modified returned True and the node is untouched since
    was_selected, \* the last modify_node ran on a node selected just before (history)
    prev_op,      \* the function that ran before the last one (history)
    prev_exc,     \* the exception that function raised (history)
    calls         \* number of methods applied to the node so far

vars ==
    <<func, keywords, const_has_s, op, arg, ret, exc, old, selected, was_selected,
      prev_op, prev_exc, calls>>

---------------------------------------------------------------------------
\* Bounds of the model.

\* Number of method applications on one node.
MaxCalls == 3

\* Longest version string given to _tf_py_version_default.
MaxVerLen == 6

\* Longest callee chain (a name followed by attribute accesses) given to the matcher.
MaxChain == 4

---------------------------------------------------------------------------
\* Python values.

PyNone == [t |-> "None", s |-> <<>>]

PyStr(s) == [t |-> "str", s |-> s]

PyBool(b) == [t |-> "bool", s |-> IF b THEN <<"True">> ELSE <<"False">>]

PyTrue == PyBool(TRUE)

PyFalse == PyBool(FALSE)

\* Truth value of a Python value: None, False and the empty string are falsy.
Truthy(v) == v.t # "None" /\ v # PyFalse /\ v.s # <<>>

Return(v) == [exc |-> "", val |-> v]

Raise(e) == [exc |-> e, val |-> PyNone]

\* Version strings and py_version strings used below.
V_4_1_0 == <<"4", ".", "1", ".", "0">>

V_1_2_0 == <<"1", ".", "2", ".", "0">>

V_0_4_0 == <<"0", ".", "4", ".", "0">>

V_0_20_0 == <<"0", ".", "2", "0", ".", "0">>

V_1_11_0 == <<"1", ".", "1", "1", ".", "0">>

Py2 == PyStr(<<"py2">>)

Py3 == PyStr(<<"py3">>)

Py37 == PyStr(<<"py37">>)

---------------------------------------------------------------------------
\* Module constants.

FRAMEWORK_ARG == <<"framework_version">>

PY_ARG == <<"py_version">>

IMAGE_NAME_ARG == <<"image_name">>

IMAGE_ARG == <<"image">>

Frameworks == {"Chainer", "MXNet", "PyTorch", "SKLearn", "TensorFlow"}

\* FRAMEWORK_DEFAULTS, keyed by identifier.
FRAMEWORK_DEFAULTS ==
    [k \in {<<fw>> : fw \in Frameworks} |->
        CASE k = <<"Chainer">> -> V_4_1_0
          [] k = <<"MXNet">> -> V_1_2_0
          [] k = <<"PyTorch">> -> V_0_4_0
          [] k = <<"SKLearn">> -> V_0_20_0
          [] k = <<"TensorFlow">> -> V_1_11_0]

FRAMEWORK_CLASSES == DOMAIN FRAMEWORK_DEFAULTS

\* "{}Model".format(fw)
MODEL_CLASSES == {fw \o <<"Model">> : fw \in FRAMEWORK_CLASSES}

\* str.lower on the words of the framework names.
Lower(w) ==
    CASE w = "Chainer" -> "chainer"
      [] w = "MXNet" -> "mxnet"
      [] w = "PyTorch" -> "pytorch"
      [] w = "SKLearn" -> "sklearn"
      [] w = "TensorFlow" -> "tensorflow"
      [] OTHER -> w

FRAMEWORK_MODULES == {[i \in DOMAIN fw |-> Lower(fw[i])] : fw \in FRAMEWORK_CLASSES}

FRAMEWORK_SUBMODULES == {<<"model">>, <<"estimator">>}

---------------------------------------------------------------------------
\* _tf_py_version_default and the string and list primitives it uses.

DigitChars == <<"0", "1", "2", "3", "4", "5", "6", "7", "8", "9">>

IsDigit(c) == \E d \in 1..10 : DigitChars[d] = c

DigitVal(c) == (CHOOSE d \in 1..10 : DigitChars[d] = c) - 1

\* int(s) is defined on a non-empty string of digits and raises ValueError otherwise.
IntOk(s) == Len(s) > 0 /\ \A i \in 1..Len(s) : IsDigit(s[i])

RECURSIVE IntVal(_)
IntVal(s) ==
    IF Len(s) = 0 THEN 0
    ELSE 10 * IntVal(SubSeq(s, 1, Len(s) - 1)) + DigitVal(s[Len(s)])

\* s.split("."): the substrings between the dots, empty ones included.
RECURSIVE Split(_)
Split(s) ==
    IF \A i \in 1..Len(s) : s[i] # "."
    THEN <<s>>
    ELSE LET i == CHOOSE j \in 1..Len(s) :
                    s[j] = "." /\ \A k \in 1..(j - 1) : s[k] # "."
         IN <<SubSeq(s, 1, i - 1)>> \o Split(SubSeq(s, i + 1, Len(s)))

\* Mutant of ListLess: a strict prefix is not smaller than its extension.
ListLess_noprefix(a, b) ==
    \E i \in 1..Len(a) :
        /\ i <= Len(b)
        /\ a[i] < b[i]
        /\ \A k \in 1..(i - 1) : a[k] = b[k]

\* a < b on Python lists of integers: decided by the first index where they
\* differ; when there is none, the shorter list is the smaller.
ListLess(a, b) ==
    LET n == IF Len(a) < Len(b) THEN Len(a) ELSE Len(b)
        diff == {i \in 1..n : a[i] # b[i]}
    IN IF diff = {}
       THEN Len(a) < Len(b)
       ELSE LET i == CHOOSE j \in diff : \A k \in diff : j <= k
            IN a[i] < b[i]

_tf_py_version_default(framework_version) ==
    IF ~Truthy(framework_version) THEN Return(Py2)
    ELSE LET parts == Split(framework_version.s)
         IN IF \E i \in 1..Len(parts) : ~IntOk(parts[i])
            THEN Raise("ValueError")
            ELSE LET version == [i \in 1..Len(parts) |-> IntVal(parts[i])]
                 IN IF ListLess(version, <<1, 12>>) THEN Return(Py2)
                    ELSE IF ListLess(version, <<2, 2>>) THEN Return(Py3)
                    ELSE Return(Py37)

---------------------------------------------------------------------------
\* Expressions.  The callee is a chain: a base expression followed by
\* attribute accesses.  [base |-> "Name", ids |-> <<a, b, c>>] is a.b.c, an
\* ast.Attribute (attr c) whose value is a.b; [base |-> "Name", ids |-> <<a>>]
\* is the ast.Name a; [base |-> "Other", ids |-> <<b>>] is <expr>.b for an
\* expression that is neither a name nor an attribute access (a call, a
\* subscript), and [base |-> "Other", ids |-> <<>>] is that expression itself.

IsName(e) == e.base = "Name" /\ Len(e.ids) = 1

IsAttribute(e) == Len(e.ids) >= (IF e.base = "Name" THEN 2 ELSE 1)

\* e.id of an ast.Name, e.attr of an ast.Attribute
LastId(e) == e.ids[Len(e.ids)]

\* e.value of an ast.Attribute
ValueOf(e) == [base |-> e.base, ids |-> SubSeq(e.ids, 1, Len(e.ids) - 1)]

\* Mutant of _is_in_framework_module: the root name is not compared with "sagemaker".
_is_in_framework_module_anyroot(node) ==
    /\ IsAttribute(ValueOf(node))
    /\ LastId(ValueOf(node)) \in FRAMEWORK_MODULES
    /\ IsName(ValueOf(ValueOf(node)))

_is_in_framework_module(node) ==
    /\ IsAttribute(ValueOf(node))
    /\ LastId(ValueOf(node)) \in FRAMEWORK_MODULES
    /\ IsName(ValueOf(ValueOf(node)))
    /\ LastId(ValueOf(ValueOf(node))) = <<"sagemaker">>

_is_named_constructor(f, names) ==
    IF IsName(f) THEN LastId(f) \in names
    ELSE IF ~(IsAttribute(f) /\ LastId(f) \in names) THEN FALSE
    ELSE IF IsAttribute(ValueOf(f)) /\ LastId(ValueOf(f)) \in FRAMEWORK_SUBMODULES
         THEN _is_in_framework_module(ValueOf(f))
    ELSE _is_in_framework_module(f)

\* s.endswith(suffix)
EndsWith(s, suffix) ==
    /\ Len(suffix) <= Len(s)
    /\ SubSeq(s, Len(s) - Len(suffix) + 1, Len(s)) = suffix

\* s.find(sub): the 0-based index of the first occurrence of sub in s, -1 if none.
Find(s, sub) ==
    LET at == {i \in 1..(Len(s) - Len(sub) + 1) : SubSeq(s, i, i + Len(sub) - 1) = sub}
    IN IF at = {} THEN -1
       ELSE (CHOOSE i \in at : \A k \in at : i <= k) - 1

\* s[:n]; a negative n counts from the end.
SliceTo(s, n) ==
    LET m == IF n < 0 THEN (IF Len(s) + n < 0 THEN 0 ELSE Len(s) + n)
             ELSE (IF n > Len(s) THEN Len(s) ELSE n)
    IN SubSeq(s, 1, m)

\* Mutant of _framework_from_node: the "Model" suffix is not stripped.
_framework_from_node_nostrip(f) ==
    LET name == IF IsName(f) \/ IsAttribute(f) THEN LastId(f) ELSE <<>>
    IN [framework |-> name, is_model |-> EndsWith(name, <<"Model">>)]

_framework_from_node(f) ==
    LET name == IF IsName(f) THEN LastId(f)
                ELSE IF IsAttribute(f) THEN LastId(f)
                ELSE <<>>
        is_model == EndsWith(name, <<"Model">>)
    IN [framework |-> IF is_model THEN SliceTo(name, Find(name, <<"Model">>)) ELSE name,
        is_model |-> is_model]

_py_version_defaults(framework, framework_version, is_model) ==
    IF framework \in {<<"Chainer">>, <<"PyTorch">>} THEN Return(Py3)
    ELSE IF framework = <<"SKLearn">> /\ ~is_model THEN Return(Py3)
    ELSE IF framework = <<"MXNet">> THEN Return(Py2)
    ELSE IF framework = <<"TensorFlow">> /\ ~is_model
         THEN _tf_py_version_default(framework_version)
    ELSE Return(PyNone)

---------------------------------------------------------------------------
\* Keywords.  A keyword is [arg, value]; its value is an expression:
\* [kind |-> "Str", s |-> ...] a string literal, [kind |-> "NoneConst"] the
\* literal None, [kind |-> "Name"] a name (an expression that is no literal).
\* Number and bytes literals are not modelled.

StrExpr(s) == [kind |-> "Str", s |-> s]

NoneExpr == [kind |-> "NoneConst", s |-> <<>>]

NameExpr == [kind |-> "Name", s |-> <<>>]

Keyword(a, v) == [arg |-> a, value |-> v]

\* kw.value.s.  An ast.Str has the attribute s; an ast.Name has none.  The
\* node of a None literal has it (an ast.Constant, s being its value) or has
\* not (an ast.NameConstant, or the ast.Name of Python 2), by interpreter.
AttrS(value) ==
    CASE value.kind = "Str" -> Return(PyStr(value.s))
      [] value.kind = "NoneConst" ->
            IF const_has_s THEN Return(PyNone) ELSE Raise("AttributeError")
      [] OTHER -> Raise("AttributeError")

\* The first keyword named a decides (an ast node is always truthy).
_arg_value(kws, a) ==
    LET at == {i \in 1..Len(kws) : kws[i].arg = a}
    IN IF at = {} THEN Return(PyNone)
       ELSE AttrS(kws[CHOOSE i \in at : \A k \in at : i <= k].value)

\* Mutant of _version_args_needed: the image argument is looked at after the version.
_version_args_needed_imagelast(f, kws, image_arg) ==
    LET framework_version == _arg_value(kws, FRAMEWORK_ARG)
        image_name == _arg_value(kws, image_arg)
    IN IF framework_version.exc # "" THEN framework_version
       ELSE IF framework_version.val = PyNone THEN Return(PyTrue)
       ELSE IF image_name.exc # "" THEN image_name
       ELSE Return(PyBool(~Truthy(image_name.val)))

_version_args_needed(f, kws, image_arg) ==
    LET image_name == _arg_value(kws, image_arg)
        framework_version == _arg_value(kws, FRAMEWORK_ARG)
        fr == _framework_from_node(f)
        expecting_py_version ==
            _py_version_defaults(fr.framework, framework_version.val, fr.is_model)
        py_version == _arg_value(kws, PY_ARG)
    IN IF image_name.exc # "" THEN image_name
       ELSE IF Truthy(image_name.val) THEN Return(PyFalse)
       ELSE IF framework_version.exc # "" THEN framework_version
       ELSE IF framework_version.val = PyNone THEN Return(PyTrue)
       ELSE IF expecting_py_version.exc # "" THEN expecting_py_version
       ELSE IF Truthy(expecting_py_version.val)
            THEN (IF py_version.exc # "" THEN py_version
                  ELSE Return(PyBool(py_version.val = PyNone)))
       ELSE Return(PyFalse)

node_should_be_modified(f, kws) ==
    IF _is_named_constructor(f, FRAMEWORK_CLASSES)
    THEN _version_args_needed(f, kws, IMAGE_NAME_ARG)
    ELSE IF _is_named_constructor(f, MODEL_CLASSES)
    THEN _version_args_needed(f, kws, IMAGE_ARG)
    ELSE Return(PyFalse)

\* Mutant of modify_node: py_version is appended before framework_version.
modify_node_pyfirst(f, kws) ==
    LET fr == _framework_from_node(f)
        found == _arg_value(kws, FRAMEWORK_ARG)
        missing == found.exc = "" /\ found.val = PyNone
        framework_version ==
            IF missing THEN PyStr(FRAMEWORK_DEFAULTS[fr.framework]) ELSE found.val
        py_found == _arg_value(kws, PY_ARG)
        py_version == _py_version_defaults(fr.framework, framework_version, fr.is_model)
        kws1 == IF py_found.val = PyNone /\ Truthy(py_version.val)
                THEN Append(kws, Keyword(PY_ARG, StrExpr(py_version.val.s)))
                ELSE kws
    IN IF found.exc # "" THEN [exc |-> found.exc, keywords |-> kws]
       ELSE IF missing /\ fr.framework \notin DOMAIN FRAMEWORK_DEFAULTS
       THEN [exc |-> "KeyError", keywords |-> kws]
       ELSE IF py_found.exc # "" THEN [exc |-> py_found.exc, keywords |-> kws]
       ELSE IF py_found.val = PyNone /\ py_version.exc # ""
       THEN [exc |-> py_version.exc, keywords |-> kws]
       ELSE [exc |-> "",
             keywords |-> IF missing
                          THEN Append(kws1, Keyword(FRAMEWORK_ARG, StrExpr(framework_version.s)))
                          ELSE kws1]

\* The exception raised ("" if none) and node.keywords as modify_node leaves them.
modify_node(f, kws) ==
    LET fr == _framework_from_node(f)
        found == _arg_value(kws, FRAMEWORK_ARG)
        missing == found.exc = "" /\ found.val = PyNone
        framework_version ==
            IF missing THEN PyStr(FRAMEWORK_DEFAULTS[fr.framework]) ELSE found.val
        kws1 == IF missing
                THEN Append(kws, Keyword(FRAMEWORK_ARG, StrExpr(framework_version.s)))
                ELSE kws
        py_found == _arg_value(kws1, PY_ARG)
        py_version == _py_version_defaults(fr.framework, framework_version, fr.is_model)
    IN IF found.exc # "" THEN [exc |-> found.exc, keywords |-> kws]
       ELSE IF missing /\ fr.framework \notin DOMAIN FRAMEWORK_DEFAULTS
       THEN [exc |-> "KeyError", keywords |-> kws]
       ELSE IF py_found.exc # "" THEN [exc |-> py_found.exc, keywords |-> kws1]
       ELSE IF py_found.val # PyNone THEN [exc |-> "", keywords |-> kws1]
       ELSE IF py_version.exc # "" THEN [exc |-> py_version.exc, keywords |-> kws1]
       ELSE IF Truthy(py_version.val)
       THEN [exc |-> "",
             keywords |-> Append(kws1, Keyword(PY_ARG, StrExpr(py_version.val.s)))]
       ELSE [exc |-> "", keywords |-> kws1]

---------------------------------------------------------------------------
\* The modifier applied to one ast.Call node.

Id(w) == <<w>>

NameOf(ids) == [base |-> "Name", ids |-> ids]

\* Callees of the nodes visited: the ten framework classes by bare name,
\* qualified forms, and callees that are no framework constructor.
NodeFuncs ==
    {NameOf(<<c>>) : c \in FRAMEWORK_CLASSES \cup MODEL_CLASSES}
    \cup {NameOf(<<Id("sagemaker"), Id("tensorflow"), Id("TensorFlow")>>),
          NameOf(<<Id("sagemaker"), Id("mxnet"), Id("estimator"), Id("MXNet")>>),
          NameOf(<<Id("sagemaker"), Id("sklearn"), Id("model"), <<"SKLearn", "Model">>>>),
          NameOf(<<Id("other"), Id("tensorflow"), Id("TensorFlow")>>),
          NameOf(<<Id("Foo")>>),
          NameOf(<<Id("Model")>>),
          [base |-> "Other", ids |-> <<>>]}

V_1_12 == <<"1", ".", "1", "2">>

V_2_2 == <<"2", ".", "2">>

V_1_dot == <<"1", ".">>

Optional(a, values) == {<<>>} \cup {<<Keyword(a, v)>> : v \in values}

\* Keyword lists of the source program: no keyword name is repeated.
NodeKeywords ==
    {e \o i \o f \o p :
        e \in Optional(<<"entry_point">>, {StrExpr(<<"train.py">>)}),
        i \in Optional(IMAGE_NAME_ARG, {StrExpr(<<>>), StrExpr(<<"img">>), NoneExpr, NameExpr})
              \cup Optional(IMAGE_ARG, {StrExpr(<<>>), StrExpr(<<"img">>), NoneExpr, NameExpr}),
        f \in Optional(FRAMEWORK_ARG,
                       {StrExpr(<<>>), StrExpr(V_1_11_0), StrExpr(V_1_12), StrExpr(V_2_2),
                        StrExpr(V_1_dot), NoneExpr, NameExpr}),
        p \in Optional(PY_ARG, {StrExpr(<<>>), StrExpr(<<"py3">>), NoneExpr, NameExpr})}

Init ==
    /\ func \in NodeFuncs
    /\ keywords \in NodeKeywords
    /\ const_has_s \in BOOLEAN
    /\ op = ""
    /\ prev_op = ""
    /\ prev_exc = ""
    /\ arg = PyNone
    /\ ret = PyNone
    /\ exc = ""
    /\ old = keywords
    /\ selected = FALSE
    /\ was_selected = FALSE
    /\ calls = 0

ShouldModify ==
    /\ calls < MaxCalls
    /\ LET r == node_should_be_modified(func, keywords)
       IN /\ ret' = r.val
          /\ exc' = r.exc
          /\ selected' = (r.exc = "" /\ r.val = PyTrue)
    /\ op' = "node_should_be_modified"
    /\ prev_op' = op
    /\ prev_exc' = exc
    /\ calls' = calls + 1
    /\ UNCHANGED <<func, keywords, const_has_s, arg, old, was_selected>>

ModifyNode ==
    /\ calls < MaxCalls
    /\ LET r == modify_node(func, keywords)
       IN /\ keywords' = r.keywords
          /\ exc' = r.exc
    /\ ret' = PyNone
    /\ old' = keywords
    /\ was_selected' = selected
    /\ selected' = FALSE
    /\ op' = "modify_node"
    /\ prev_op' = op
    /\ prev_exc' = exc
    /\ calls' = calls + 1
    /\ UNCHANGED <<func, const_has_s, arg>>

Next == ShouldModify \/ ModifyNode

Spec == Init /\ [][Next]_vars

---------------------------------------------------------------------------
\* _tf_py_version_default applied to None and to every string of at most
\* MaxVerLen characters over VerChars.

VerChars == {"0", "1", "2", "."}

VerStrings == UNION {[1..n -> VerChars] : n \in 0..MaxVerLen}

InitTf ==
    /\ arg \in {PyNone} \cup {PyStr(s) : s \in VerStrings}
    /\ func = NameOf(<<Id("TensorFlow")>>)
    /\ keywords = <<>>
    /\ const_has_s = TRUE
    /\ op = ""
    /\ prev_op = ""
    /\ prev_exc = ""
    /\ ret = PyNone
    /\ exc = ""
    /\ old = <<>>
    /\ selected = FALSE
    /\ was_selected = FALSE
    /\ calls = 0

TfPyVersionDefault ==
    /\ op = ""
    /\ LET r == _tf_py_version_default(arg)
       IN /\ ret' = r.val
          /\ exc' = r.exc
    /\ op' = "_tf_py_version_default"
    /\ prev_op' = op
    /\ prev_exc' = exc
    /\ calls' = calls + 1
    /\ UNCHANGED <<func, keywords, const_has_s, arg, old, selected, was_selected>>

NextTf == TfPyVersionDefault

SpecTf == InitTf /\ [][NextTf]_vars

---------------------------------------------------------------------------
\* _is_named_constructor applied to every callee chain of at most MaxChain
\* identifiers over MatchIds, for the two name lists of the module and a
\* third list that is neither.

MatchIds ==
    {Id("sagemaker"), Id("other"), Id("tensorflow"), Id("mxnet"), Id("model"),
     Id("estimator"), Id("TensorFlow"), <<"TensorFlow", "Model">>}

MatchFuncs ==
    {[base |-> b, ids |-> s] :
        b \in {"Name", "Other"},
        s \in UNION {[1..n -> MatchIds] : n \in 0..MaxChain}}
    \ {[base |-> "Name", ids |-> <<>>]}

MatchNames == {FRAMEWORK_CLASSES, MODEL_CLASSES, {Id("TensorFlow"), Id("model"), Id("sagemaker")}}

InitMatch ==
    /\ func \in MatchFuncs
    /\ arg = {}
    /\ keywords = <<>>
    /\ const_has_s = TRUE
    /\ op = ""
    /\ prev_op = ""
    /\ prev_exc = ""
    /\ ret = PyNone
    /\ exc = ""
    /\ old = <<>>
    /\ selected = FALSE
    /\ was_selected = FALSE
    /\ calls = 0

IsNamedConstructor ==
    /\ op = ""
    /\ \E names \in MatchNames :
        /\ arg' = names
        /\ ret' = PyBool(_is_named_constructor(func, names))
    /\ exc' = ""
    /\ op' = "_is_named_constructor"
    /\ prev_op' = op
    /\ prev_exc' = exc
    /\ calls' = calls + 1
    /\ UNCHANGED <<func, keywords, const_has_s, old, selected, was_selected>>

NextMatch == IsNamedConstructor

SpecMatch == InitMatch /\ [][NextMatch]_vars

---------------------------------------------------------------------------
\* Vocabulary of the properties below.

HasKeyword(kws, a) == \E i \in 1..Len(kws) : kws[i].arg = a

CountKeyword(kws, a) == Cardinality({i \in 1..Len(kws) : kws[i].arg = a})

\* The value expression of the first keyword named a.
KeywordValue(kws, a) ==
    kws[CHOOSE i \in 1..Len(kws) :
            kws[i].arg = a /\ \A k \in 1..(i - 1) : kws[k].arg # a].value

\* The keyword named a is a string literal.
HasLiteral(kws, a) == HasKeyword(kws, a) /\ KeywordValue(kws, a).kind = "Str"

IsEstimatorCall(f) == _is_named_constructor(f, FRAMEWORK_CLASSES)

IsModelCall(f) == ~IsEstimatorCall(f) /\ _is_named_constructor(f, MODEL_CLASSES)

Recognized(f) == IsEstimatorCall(f) \/ IsModelCall(f)

ImageArgName(f) == IF IsEstimatorCall(f) THEN IMAGE_NAME_ARG ELSE IMAGE_ARG

\* The call supplies a non-empty string literal for its image argument.
ImageSupplied(f, kws) ==
    HasLiteral(kws, ImageArgName(f)) /\ KeywordValue(kws, ImageArgName(f)).s # <<>>

FrameworkVersionKw(v) == Keyword(FRAMEWORK_ARG, StrExpr(v))

PyVersionKw(v) == Keyword(PY_ARG, StrExpr(v))

---------------------------------------------------------------------------
\* C1. Idempotence: node_should_be_modified, evaluated immediately after
\* modify_node was applied to the node (and returned), returns False, for
\* every node.
C1_ShouldModifyFalseAfterModify ==
    (prev_op = "modify_node" /\ prev_exc = "" /\ op = "node_should_be_modified")
        => (exc = "" /\ ret = PyFalse)

\* C2. Image-present short-circuit: on a recognized call that supplies a
\* non-empty string literal for its image argument (image_name for an
\* estimator, image for a model), node_should_be_modified returns False,
\* whatever the framework_version and py_version keywords are.
C2_ImageShortCircuit ==
    (op = "node_should_be_modified" /\ Recognized(func) /\ ImageSupplied(func, keywords))
        => (exc = "" /\ ret = PyFalse)

\* A TensorFlow estimator with an image and without any version is not selected.
C2_Witness ==
    /\ op = "node_should_be_modified"
    /\ func = NameOf(<<Id("TensorFlow")>>)
    /\ keywords = <<Keyword(IMAGE_NAME_ARG, StrExpr(<<"img">>))>>
    /\ exc = ""
    /\ ret = PyFalse

\* The py_version default for the version literal of the node, and the
\* decision expected of node_should_be_modified.
C3_VersionDefault ==
    LET fr == _framework_from_node(func)
    IN _py_version_defaults(fr.framework,
                            PyStr(KeywordValue(keywords, FRAMEWORK_ARG).s),
                            fr.is_model)

C3_Expected ==
    \/ ~HasLiteral(keywords, FRAMEWORK_ARG)
    \/ /\ Truthy(C3_VersionDefault.val)
       /\ ~HasKeyword(keywords, PY_ARG)

\* C3. On a recognized call without a non-empty image argument,
\* node_should_be_modified returns True exactly when framework_version has no
\* value (no keyword, or one that is no string literal), or it has one, the
\* py_version default computed from it is non-empty and there is no py_version
\* keyword; otherwise it returns False.  (A version for which the default
\* cannot be computed is left out.)
C3_ShouldModifyRule ==
    ( /\ op = "node_should_be_modified"
      /\ Recognized(func)
      /\ ~ImageSupplied(func, keywords)
      /\ (HasLiteral(keywords, FRAMEWORK_ARG) => C3_VersionDefault.exc = "") )
        => (exc = "" /\ ret = PyBool(C3_Expected))

\* The defaults table, by class name.
C4_Version(class) ==
    CASE class[1] = "Chainer" -> V_4_1_0
      [] class[1] = "MXNet" -> V_1_2_0
      [] class[1] = "PyTorch" -> V_0_4_0
      [] class[1] = "SKLearn" -> V_0_20_0
      [] class[1] = "TensorFlow" -> V_1_11_0

C4_PyKeywords(class) ==
    CASE class \in {<<"Chainer">>, <<"PyTorch">>, <<"SKLearn">>,
                    <<"Chainer", "Model">>, <<"PyTorch", "Model">>}
            -> <<PyVersionKw(<<"py3">>)>>
      [] class \in {<<"MXNet">>, <<"TensorFlow">>, <<"MXNet", "Model">>}
            -> <<PyVersionKw(<<"py2">>)>>
      [] class \in {<<"SKLearn", "Model">>, <<"TensorFlow", "Model">>}
            -> <<>>

\* C4. On a recognized call with neither a framework_version nor a py_version
\* keyword, modify_node appends framework_version with the default of the
\* callee's framework, and then py_version: py3 for Chainer, PyTorch, SKLearn,
\* ChainerModel and PyTorchModel, py2 for MXNet, TensorFlow and MXNetModel,
\* and none for SKLearnModel and TensorFlowModel.
C4_DefaultsAppended ==
    ( /\ op = "modify_node"
      /\ Recognized(func)
      /\ ~HasKeyword(old, FRAMEWORK_ARG)
      /\ ~HasKeyword(old, PY_ARG) )
        => /\ exc = ""
           /\ keywords = old \o <<FrameworkVersionKw(C4_Version(LastId(func)))>>
                             \o C4_PyKeywords(LastId(func))

\* A qualified SKLearnModel call gets framework_version 0.20.0 and no py_version.
C4_Witness ==
    /\ op = "modify_node"
    /\ func = NameOf(<<Id("sagemaker"), Id("sklearn"), Id("model"), <<"SKLearn", "Model">>>>)
    /\ old = <<Keyword(<<"entry_point">>, StrExpr(<<"train.py">>))>>
    /\ keywords = old \o <<FrameworkVersionKw(V_0_20_0)>>

\* The integers of a version string, and the version-threshold rule on its
\* first two integers.
C5_Ints(s) == [i \in 1..Len(Split(s)) |-> IntVal(Split(s)[i])]

C5_WellFormed(s) == \A i \in 1..Len(Split(s)) : IntOk(Split(s)[i])

C5_Before(v, major, minor) ==
    \/ v[1] < major
    \/ v[1] = major /\ (Len(v) = 1 \/ v[2] < minor)

C5_Expected(a) ==
    IF a = PyNone \/ a.s = <<>> THEN Py2
    ELSE IF C5_Before(C5_Ints(a.s), 1, 12) THEN Py2
    ELSE IF C5_Before(C5_Ints(a.s), 2, 2) THEN Py3
    ELSE Py37

C6_Modules == {<<"chainer">>, <<"mxnet">>, <<"pytorch">>, <<"sklearn">>, <<"tensorflow">>}

C6_Matches(f, N) ==
    /\ f.base = "Name"
    /\ f.ids[Len(f.ids)] \in N
    /\ \/ Len(f.ids) = 1
       \/ /\ Len(f.ids) \in {3, 4}
          /\ f.ids[1] = <<"sagemaker">>
          /\ f.ids[2] \in C6_Modules
          /\ Len(f.ids) = 4 => f.ids[3] \in {<<"model">>, <<"estimator">>}

\* C6. Call-site matching: a callee matches the names N exactly when it is a
\* bare name in N, or sagemaker.<m>.<C> or sagemaker.<m>.<s>.<C> with C in N,
\* m a lower-case framework name and s one of model and estimator.
C6_CallSiteMatching ==
    op = "_is_named_constructor" => ret = PyBool(C6_Matches(func, arg))

\* sagemaker.tensorflow.estimator.TensorFlow matches the framework classes.
C6_Witness ==
    /\ op = "_is_named_constructor"
    /\ func = NameOf(<<Id("sagemaker"), Id("tensorflow"), Id("estimator"), Id("TensorFlow")>>)
    /\ arg = FRAMEWORK_CLASSES
    /\ ret = PyTrue

\* C7. A keyword (image argument, framework_version, py_version) whose value
\* is no literal is treated as absent: neither node_should_be_modified nor
\* modify_node raises because of it.  (Nodes with a None literal are left
\* out: whether its node has the attribute depends on the interpreter.)
C7_NonLiteralTreatedAsAbsent ==
    ( /\ op \in {"node_should_be_modified", "modify_node"}
      /\ \E i \in 1..Len(keywords) : keywords[i].value.kind = "Name"
      /\ \A i \in 1..Len(keywords) : keywords[i].value.kind # "NoneConst" )
        => exc # "AttributeError"

\* The keywords a step appends.
C8_Appended == SubSeq(keywords', Len(keywords) + 1, Len(keywords'))

\* C8. Frame of modify_node: the callee is unchanged, and the keywords are the
\* original ones, in their order and with their values, followed by at most
\* two new ones: framework_version first, py_version second.
C8_ModifyFrame ==
    [][op' = "modify_node" /\ calls' = calls + 1 =>
        /\ func' = func
        /\ Len(keywords') >= Len(keywords)
        /\ SubSeq(keywords', 1, Len(keywords)) = keywords
        /\ [i \in 1..Len(C8_Appended) |-> C8_Appended[i].arg]
              \in {<<>>, <<FRAMEWORK_ARG>>, <<PY_ARG>>, <<FRAMEWORK_ARG, PY_ARG>>}]_vars

\* TensorFlow(py_version="py3") keeps py3, although the default for the
\* appended version 1.11.0 is py2.
C8_Witness ==
    /\ op = "modify_node"
    /\ func = NameOf(<<Id("TensorFlow")>>)
    /\ old = <<PyVersionKw(<<"py3">>)>>
    /\ keywords = <<PyVersionKw(<<"py3">>), FrameworkVersionKw(V_1_11_0)>>

\* C9. No duplicate keywords: a node never has two framework_version keywords
\* or two py_version keywords, whatever literal the source gave them.
C9_NoDuplicateKeywords ==
    /\ CountKeyword(keywords, FRAMEWORK_ARG) <= 1
    /\ CountKeyword(keywords, PY_ARG) <= 1

\* C10. On a node that node_should_be_modified has just selected, modify_node
\* completes, and appends one or two keywords.
C10_SelectedNodeIsModified ==
    (op = "modify_node" /\ was_selected)
        => (exc = "" /\ Len(keywords) - Len(old) \in {1, 2})

=============================================================================
